---- MODULE Spec2Model ----
(***************************************************************************)
(* Model of helix-term/src/keymap.rs: the textual codec of key events      *)
(* (RepresentableKeyEvent: Display and FromStr), the remap loader          *)
(* (parse_remaps) and the default keymaps (default).                       *)
(*                                                                         *)
(* A Rust &str is modelled as a sequence of characters; a character is a   *)
(* one-character TLA+ string, except the two-byte character U+00E9, which  *)
(* is written "U+00E9".  ByteLen gives the UTF-8 length that str::len and  *)
(* str slicing work with.                                                  *)
(***************************************************************************)
EXTENDS Integers, Sequences, FiniteSets, TLC

VARIABLES at, key, text, parsed, doc, loaded, previous, pc, literal, normal, select, keymaps, built

vars == <<at, key, text, parsed, doc, loaded, previous, pc, literal, normal, select, keymaps, built>>

codecVars == <<at, key, text, parsed>>
remapVars == <<doc, loaded, previous>>
keymapVars == <<pc, literal, normal, select, keymaps, built>>

(***************************************************************************)
(* Bounds of the model.                                                    *)
(***************************************************************************)
\* longest run of modifier segments put before a code token
MaxMods == 4
\* most lines (section headers and entries) of a remap document
MaxLines == 4

(***************************************************************************)
(* Characters and strings.                                                 *)
(***************************************************************************)
Digits == <<"0", "1", "2", "3", "4", "5", "6", "7", "8", "9">>

IsDigit(ch) == \E i \in 1..10 : Digits[i] = ch

DigitValue(ch) == (CHOOSE i \in 1..10 : Digits[i] = ch) - 1

\* char::len_utf8 of the characters of the model
ByteLen(ch) == IF ch = "U+00E9" THEN 2 ELSE 1

RECURSIVE StrLen(_)
\* str::len: the length in bytes
StrLen(s) == IF s = <<>> THEN 0 ELSE ByteLen(Head(s)) + StrLen(Tail(s))

RECURSIVE Split(_, _)
\* s.split('-') with cur the segment being read: always at least one segment
Split(s, cur) ==
    IF s = <<>> THEN <<cur>>
    ELSE IF Head(s) = "-" THEN <<cur>> \o Split(Tail(s), <<>>)
    ELSE Split(Tail(s), Append(cur, Head(s)))

RECURSIVE Join(_)
\* the segments written with '-' between them
Join(segs) ==
    IF Len(segs) = 0 THEN <<>>
    ELSE IF Len(segs) = 1 THEN segs[1]
    ELSE segs[1] \o <<"-">> \o Join(Tail(segs))

(***************************************************************************)
(* crossterm's KeyCode, KeyModifiers and KeyEvent.                         *)
(***************************************************************************)
Named(tag) == [tag |-> tag, ch |-> "", n |-> 0]

Char(c) == [tag |-> "Char", ch |-> c, n |-> 0]

F(i) == [tag |-> "F", ch |-> "", n |-> i]

SHIFT == "SHIFT"
ALT == "ALT"
CONTROL == "CONTROL"

KeyModifiers == {SHIFT, ALT, CONTROL}

KeyEvent(code, modifiers) == [code |-> code, modifiers |-> modifiers]

\* the value of key while no key event is at hand
NoKey == KeyEvent(Named("None"), {})

(***************************************************************************)
(* The names of the control keys, as fmt writes them and as from_str       *)
(* reads them.                                                             *)
(***************************************************************************)
FmtNames ==
    [Backspace |-> <<"B", "s">>,
     Enter     |-> <<"E", "n", "t", "e", "r">>,
     Left      |-> <<"L", "e", "f", "t">>,
     Right     |-> <<"R", "i", "g", "h", "t">>,
     Up        |-> <<"U", "p">>,
     Down      |-> <<"D", "o", "w", "n">>,
     Home      |-> <<"H", "o", "m", "e">>,
     End       |-> <<"E", "n", "d">>,
     PageUp    |-> <<"P", "a", "g", "e", "U", "p">>,
     PageDown  |-> <<"P", "a", "g", "e", "D", "o", "w", "n">>,
     Tab       |-> <<"T", "a", "b">>,
     BackTab   |-> <<"B", "a", "c", "k", "T", "a", "b">>,
     Delete    |-> <<"D", "e", "l">>,
     Insert    |-> <<"I", "n", "s", "e", "r", "t">>,
     Null      |-> <<"N", "u", "l", "l">>,
     Esc       |-> <<"E", "s", "c">>]

\* ParseNames with the arms "Up" => Up and "Down" => Down
ParseNamesUpDown ==
    {<<FmtNames[t], t>> : t \in DOMAIN FmtNames}

\* the string arms of the match of from_str: <<pattern, KeyCode variant>>
ParseNames ==
    {<<FmtNames.Backspace, "Backspace">>,
     <<FmtNames.Enter, "Enter">>,
     <<FmtNames.Left, "Left">>,
     <<FmtNames.Right, "Right">>,
     <<FmtNames.Up, "Down">>,
     <<FmtNames.Home, "Home">>,
     <<FmtNames.End, "End">>,
     <<FmtNames.PageUp, "PageUp">>,
     <<FmtNames.PageDown, "PageDown">>,
     <<FmtNames.Tab, "Tab">>,
     <<FmtNames.BackTab, "BackTab">>,
     <<FmtNames.Delete, "Delete">>,
     <<FmtNames.Insert, "Insert">>,
     <<FmtNames.Null, "Null">>,
     <<FmtNames.Esc, "Esc">>}

(***************************************************************************)
(* Results: Result<RepresentableKeyEvent, Error>, or the thread panicking. *)
(***************************************************************************)
Ok(k) == [kind |-> "Ok", key |-> k, err |-> ""]

Err(e) == [kind |-> "Err", key |-> NoKey, err |-> e]

Panic == [kind |-> "Panic", key |-> NoKey, err |-> ""]

\* the value of parsed while from_str has not been called on text
NoResult == [kind |-> "None", key |-> NoKey, err |-> ""]

(***************************************************************************)
(* impl Display for RepresentableKeyEvent.                                 *)
(***************************************************************************)
RECURSIVE Decimal(_)
\* "{}" of a u8
Decimal(i) ==
    IF i < 10 THEN <<Digits[i + 1]>>
    ELSE Append(Decimal(i \div 10), Digits[(i % 10) + 1])

\* the "{}{}{}" of the three modifier prefixes
fmtModifiers(modifiers) ==
    (IF SHIFT \in modifiers THEN <<"S", "-">> ELSE <<>>)
    \o (IF ALT \in modifiers THEN <<"A", "-">> ELSE <<>>)
    \o (IF CONTROL \in modifiers THEN <<"C", "-">> ELSE <<>>)

\* the match on key.code
fmtCode(code) ==
    CASE code.tag = "F" -> <<"F">> \o Decimal(code.n)
      [] code.tag = "Char" -> <<code.ch>>
      [] OTHER -> FmtNames[code.tag]

fmt(k) == fmtModifiers(k.modifiers) \o fmtCode(k.code)

(***************************************************************************)
(* impl FromStr for RepresentableKeyEvent.                                 *)
(***************************************************************************)
U8Max == 255

RECURSIVE ParseDigits(_, _)
\* the digit loop of str::parse::<u8>: -1 for an invalid digit or an overflow
ParseDigits(s, acc) ==
    IF s = <<>> THEN acc
    ELSE IF ~IsDigit(Head(s)) THEN -1
    ELSE LET v == acc * 10 + DigitValue(Head(s))
         IN  IF v > U8Max THEN -1 ELSE ParseDigits(Tail(s), v)

\* str::parse::<u8>: an optional '+', then at least one digit; -1 for Err
ParseU8(s) ==
    IF s = <<>> THEN -1
    ELSE IF Head(s) = "+" THEN (IF Tail(s) = <<>> THEN -1 ELSE ParseDigits(Tail(s), 0))
    ELSE ParseDigits(s, 0)

\* the arm `function if function.len() > 1 && &function[0..1] == "F"`, taken
FunctionKey(tok) ==
    LET function == ParseU8(Tail(tok))
    IN  IF function = -1 THEN Err("ParseIntError")
        ELSE IF function > 0 /\ function < 13 THEN Ok(KeyEvent(F(function), {}))
        ELSE Err("InvalidFunctionKey")

\* the match on the popped token: the key code, with no modifiers yet
ParseCode(tok) ==
    IF \E p \in ParseNames : p[1] = tok
    THEN Ok(KeyEvent(Named((CHOOSE p \in ParseNames : p[1] = tok)[2]), {}))
    ELSE IF StrLen(tok) = 1 THEN Ok(KeyEvent(Char(tok[1]), {}))
    ELSE IF StrLen(tok) > 1
    THEN \* &function[0..1] panics when byte 1 is inside the first character
         IF ByteLen(tok[1]) > 1 THEN Panic
         ELSE IF tok[1] = "F" THEN FunctionKey(tok)
         ELSE Err("InvalidKeyCode")
    ELSE Err("InvalidKeyCode")

\* the match on a modifier token: "" for the `_` arm
ModifierFlag(token) ==
    CASE token = <<"S">> -> SHIFT
      [] token = <<"A">> -> ALT
      [] token = <<"C">> -> CONTROL
      [] OTHER -> ""

RECURSIVE ParseModifiersNoRepeatCheck(_, _, _)
\* ParseModifiers without the test `modifiers.contains(flag)`
ParseModifiersNoRepeatCheck(tokens, code, modifiers) ==
    IF tokens = <<>> THEN Ok(KeyEvent(code, modifiers))
    ELSE LET flag == ModifierFlag(Head(tokens))
         IN  IF flag = "" THEN Err("InvalidKeyModifier")
             ELSE ParseModifiersNoRepeatCheck(Tail(tokens), code, modifiers \cup {flag})

RECURSIVE ParseModifiersOverwrite(_, _, _)
\* ParseModifiers with `modifiers = flag` for `modifiers.insert(flag)`
ParseModifiersOverwrite(tokens, code, modifiers) ==
    IF tokens = <<>> THEN Ok(KeyEvent(code, modifiers))
    ELSE LET flag == ModifierFlag(Head(tokens))
         IN  IF flag = "" THEN Err("InvalidKeyModifier")
             ELSE IF flag \in modifiers THEN Err("RepeatedKeyModifier")
             ELSE ParseModifiersOverwrite(Tail(tokens), code, {flag})

RECURSIVE ParseModifiers(_, _, _)
\* the loop `for token in tokens`
ParseModifiers(tokens, code, modifiers) ==
    IF tokens = <<>> THEN Ok(KeyEvent(code, modifiers))
    ELSE LET flag == ModifierFlag(Head(tokens))
         IN  IF flag = "" THEN Err("InvalidKeyModifier")
             ELSE IF flag \in modifiers THEN Err("RepeatedKeyModifier")
             ELSE ParseModifiers(Tail(tokens), code, modifiers \cup {flag})

from_str(s) ==
    LET tokens == Split(s, <<>>)
    IN  IF Len(tokens) = 0 THEN Err("MissingKeyCode")
        ELSE LET code == ParseCode(tokens[Len(tokens)])
             IN  IF code.kind # "Ok" THEN code
                 ELSE ParseModifiers(SubSeq(tokens, 1, Len(tokens) - 1),
                                     code.key.code, {})

(***************************************************************************)
(* The key events and the strings the codec is run on.                     *)
(***************************************************************************)
KeyNames == DOMAIN FmtNames

\* the characters of Char key events
CharVocab == {"a", "w", "1", "-", "+", "S", "A", "C", "F", "U+00E9"}

\* KeyCode::F holds a u8; 1..12 are the function keys
FunctionNumbers == 0..13

KeyCodes ==
    {Named(t) : t \in KeyNames}
    \cup {F(i) : i \in FunctionNumbers}
    \cup {Char(c) : c \in CharVocab}

KeyEvents == {KeyEvent(c, m) : c \in KeyCodes, m \in SUBSET KeyModifiers}

\* the segments put before the last '-' of an input string
ModTokens == {<<"S">>, <<"A">>, <<"C">>, <<"Q">>, <<>>}

\* the segments put after the last '-' of an input string
CodeTokens ==
    {FmtNames.Backspace, FmtNames.Up, FmtNames.Down, FmtNames.Esc, FmtNames.PageDown}
    \cup {<<>>, <<"a">>, <<"1">>, <<"S">>, <<"F">>, <<"+">>,
          <<"a", "a", "a">>, <<"1", "2", "3">>,
          <<"U+00E9">>, <<"U+00E9", "U+00E9">>, <<"a", "U+00E9">>,
          <<"F", "U+00E9">>, <<"F", "U">>, <<"F", "+">>, <<"F", "1", "a">>,
          <<"F", "0">>, <<"F", "1">>, <<"F", "9">>, <<"F", "1", "2">>,
          <<"F", "1", "3">>, <<"F", "0", "1">>, <<"F", "0", "1", "2">>,
          <<"F", "+", "1">>, <<"F", "2", "5", "6">>, <<"F", "9", "9">>}

RECURSIVE SeqsUpTo(_, _)
\* the sequences over S of length at most n
SeqsUpTo(S, n) ==
    IF n = 0 THEN {<<>>}
    ELSE LET shorter == SeqsUpTo(S, n - 1)
         IN  shorter \cup {Append(q, x) : q \in shorter, x \in S}

\* the input string of the modifier segments mods and the code segment code
InputString(mods, code) == Join(Append(mods, code))

(***************************************************************************)
(* The codec as a state machine.  A run starts from a key event to write   *)
(* (at = "key") or from a string of a configuration file (at = "text");    *)
(* the key event is written with to_string (Display) and the string at     *)
(* hand is parsed (FromStr).                                               *)
(***************************************************************************)
\* RepresentableKeyEvent(key).to_string()
Display ==
    /\ at = "key"
    /\ text' = fmt(key)
    /\ at' = "text"
    /\ UNCHANGED <<key, parsed>>

\* str::parse::<RepresentableKeyEvent>(text)
FromStr ==
    /\ at = "text"
    /\ parsed' = from_str(text)
    /\ at' = "parsed"
    /\ UNCHANGED <<key, text>>

NextCodec ==
    \/ Display /\ UNCHANGED <<remapVars, keymapVars>>
    \/ FromStr /\ UNCHANGED <<remapVars, keymapVars>>

(***************************************************************************)
(* Maps (std HashMap) as functions.                                        *)
(***************************************************************************)
EmptyMap == [x \in {} |-> x]

\* HashMap::insert: a later value for a key replaces the earlier one
Insert(map, k, v) == [x \in DOMAIN map \cup {k} |-> IF x = k THEN v ELSE map[x]]

\* the orders in which a HashMap may yield the keys S: the order of iteration
\* of a std HashMap is unspecified and differs from one map to the next
Perms(S) == {q \in SeqsUpTo(S, Cardinality(S)) :
                Len(q) = Cardinality(S) /\ \A x \in S : \E i \in 1..Len(q) : q[i] = x}

(***************************************************************************)
(* Remap documents.  A document is its sequence of lines, a line being a   *)
(* section header [name] or an entry source = "target".  Section names     *)
(* are compared as wholes only and are kept as TLA+ strings.               *)
(***************************************************************************)
Header(name) == [header |-> TRUE, name |-> name, source |-> <<>>, target |-> <<>>]

Entry(source, target) ==
    [header |-> FALSE, name |-> "", source |-> source, target |-> target]

SectionNames == {"Normal", "Insert", "Bogus"}

DocEntries ==
    {Entry(<<"y">>, <<"x">>),
     Entry(<<"S", "-", "C", "-", "a">>, <<"F", "1", "2">>),
     Entry(<<"C", "-", "S", "-", "a">>, <<"x">>),
     Entry(<<"a", "a", "a">>, <<"x">>),
     Entry(<<"y">>, <<"F", "0">>),
     Entry(<<"U+00E9", "U+00E9">>, <<"x">>)}

DocLines == {Header(n) : n \in SectionNames} \cup DocEntries

Documents == SeqsUpTo(DocLines, MaxLines)

\* the outcome of a load
OkRemaps(remaps) == [kind |-> "Ok", remaps |-> remaps, err |-> ""]

ErrRemaps(e) == [kind |-> "Err", remaps |-> EmptyMap, err |-> e]

PanicRemaps == [kind |-> "Panic", remaps |-> EmptyMap, err |-> ""]

\* the value of loaded and previous while no load has been made
NoLoad == [kind |-> "None", remaps |-> EmptyMap, err |-> ""]

RECURSIVE TomlLines(_, _, _)
\* toml::from_str::<HashMap<String, HashMap<String, String>>> over the lines
\* left, cur the open section ("" before the first header): an entry outside
\* a section, a section defined twice and a key defined twice are errors
TomlLines(lines, cur, acc) ==
    IF lines = <<>> THEN OkRemaps(acc)
    ELSE LET l == Head(lines)
         IN  IF l.header
             THEN IF l.name \in DOMAIN acc THEN ErrRemaps("TomlError")
                  ELSE TomlLines(Tail(lines), l.name, Insert(acc, l.name, EmptyMap))
             ELSE IF cur = "" \/ l.source \in DOMAIN acc[cur]
                  THEN ErrRemaps("TomlError")
                  ELSE TomlLines(Tail(lines), cur,
                                 Insert(acc, cur, Insert(acc[cur], l.source, l.target)))

toml_from_str(d) == TomlLines(d, "", EmptyMap)

\* helix_view::document::Mode
Modes == {"Normal", "Select", "Insert"}

\* Mode::from_str: the mode of that exact name, "" for Err
ModeFromStr(name) == IF name \in Modes THEN name ELSE ""

(***************************************************************************)
(* parse_remaps.                                                           *)
(***************************************************************************)
\* remap_insert with source and target swapped
remap_insert_swapped(remap, source_key, target_key) ==
    Insert(remap, target_key.key, source_key.key)

\* `remap.insert(source_key.0, target_key.0)`
remap_insert(remap, source_key, target_key) ==
    Insert(remap, source_key.key, target_key.key)

RECURSIVE RemapLoop(_, _, _)
\* the loop `for (source_key, target_key) in map`, the map yielding its
\* keys in the order `order`
RemapLoop(map, order, remap) ==
    IF order = <<>> THEN OkRemaps(remap)
    ELSE LET source_key == from_str(Head(order))
         IN  IF source_key.kind = "Panic" THEN PanicRemaps
             ELSE IF source_key.kind = "Err" THEN ErrRemaps(source_key.err)
             ELSE LET target_key == from_str(map[Head(order)])
                  IN  IF target_key.kind = "Panic" THEN PanicRemaps
                      ELSE IF target_key.kind = "Err" THEN ErrRemaps(target_key.err)
                      ELSE RemapLoop(map, Tail(order),
                                     remap_insert(remap, source_key, target_key))

\* what the inner loop may leave, over the orders the map may yield
RemapOutcomes(map) == {RemapLoop(map, o, EmptyMap) : o \in Perms(DOMAIN map)}

RECURSIVE ModeLoop(_, _, _)
\* the loop `for (mode, map) in toml_remaps`: the outcomes, over the orders
\* the inner maps may yield
ModeLoop(toml_remaps, order, remaps) ==
    IF order = <<>> THEN {OkRemaps(remaps)}
    ELSE LET mode == ModeFromStr(Head(order))
         IN  IF mode = "" THEN {ErrRemaps("UnknownMode")}
             ELSE UNION {IF r.kind = "Ok"
                         THEN ModeLoop(toml_remaps, Tail(order),
                                       Insert(remaps, mode, r.remaps))
                         ELSE {r} :
                         r \in RemapOutcomes(toml_remaps[Head(order)])}

\* the outcomes parse_remaps may have on the document d
parse_remaps(d) ==
    LET toml_remaps == toml_from_str(d)
    IN  IF toml_remaps.kind # "Ok" THEN {toml_remaps}
        ELSE UNION {ModeLoop(toml_remaps.remaps, o, EmptyMap) :
                    o \in Perms(DOMAIN toml_remaps.remaps)}

(***************************************************************************)
(* The loader as a state machine.  A run starts from the text of a remap   *)
(* document; the document is loaded (Load) and, the configuration being    *)
(* read again, loaded a second time (Reload).                              *)
(***************************************************************************)
\* parse_remaps(doc)
Load ==
    /\ loaded = NoLoad
    /\ loaded' \in parse_remaps(doc)
    /\ UNCHANGED <<doc, previous>>

\* parse_remaps(doc) once more, the outcome of the first load kept aside
Reload ==
    /\ loaded # NoLoad
    /\ previous = NoLoad
    /\ previous' = loaded
    /\ loaded' \in parse_remaps(doc)
    /\ UNCHANGED doc

NextRemaps ==
    \/ Load /\ UNCHANGED <<codecVars, keymapVars>>
    \/ Reload /\ UNCHANGED <<codecVars, keymapVars>>

(***************************************************************************)
(* default(): the key events and commands of the three hashmap! literals,  *)
(* in the order they are written.                                          *)
(***************************************************************************)
\* NormalBindings with the two pairs of K exchanged: hover first
NormalBindingsHoverFirst ==
    <<
     <<KeyEvent(Char("h"), {}), "move_char_left">>,
     <<KeyEvent(Char("j"), {}), "move_line_down">>,
     <<KeyEvent(Char("k"), {}), "move_line_up">>,
     <<KeyEvent(Char("l"), {}), "move_char_right">>,
     <<KeyEvent(Named("Left"), {}), "move_char_left">>,
     <<KeyEvent(Named("Down"), {}), "move_line_down">>,
     <<KeyEvent(Named("Up"), {}), "move_line_up">>,
     <<KeyEvent(Named("Right"), {}), "move_char_right">>,
     <<KeyEvent(Char("t"), {}), "find_till_char">>,
     <<KeyEvent(Char("f"), {}), "find_next_char">>,
     <<KeyEvent(Char("T"), {}), "till_prev_char">>,
     <<KeyEvent(Char("F"), {}), "find_prev_char">>,
     <<KeyEvent(Char("r"), {}), "replace">>,
     <<KeyEvent(Char("R"), {}), "replace_with_yanked">>,
     <<KeyEvent(Named("Home"), {}), "move_line_start">>,
     <<KeyEvent(Named("End"), {}), "move_line_end">>,
     <<KeyEvent(Char("w"), {}), "move_next_word_start">>,
     <<KeyEvent(Char("b"), {}), "move_prev_word_start">>,
     <<KeyEvent(Char("e"), {}), "move_next_word_end">>,
     <<KeyEvent(Char("v"), {}), "select_mode">>,
     <<KeyEvent(Char("g"), {}), "goto_mode">>,
     <<KeyEvent(Char(":"), {}), "command_mode">>,
     <<KeyEvent(Char("i"), {}), "insert_mode">>,
     <<KeyEvent(Char("I"), {}), "prepend_to_line">>,
     <<KeyEvent(Char("a"), {}), "append_mode">>,
     <<KeyEvent(Char("A"), {}), "append_to_line">>,
     <<KeyEvent(Char("o"), {}), "open_below">>,
     <<KeyEvent(Char("O"), {}), "open_above">>,
     <<KeyEvent(Char("d"), {}), "delete_selection">>,
     <<KeyEvent(Char("c"), {}), "change_selection">>,
     <<KeyEvent(Char("s"), {}), "select_regex">>,
     <<KeyEvent(Char("s"), {ALT}), "split_selection_on_newline">>,
     <<KeyEvent(Char("S"), {}), "split_selection">>,
     <<KeyEvent(Char(";"), {}), "collapse_selection">>,
     <<KeyEvent(Char(";"), {ALT}), "flip_selections">>,
     <<KeyEvent(Char("%"), {}), "select_all">>,
     <<KeyEvent(Char("x"), {}), "select_line">>,
     <<KeyEvent(Char("X"), {}), "extend_line">>,
     <<KeyEvent(Char("m"), {}), "match_brackets">>,
     <<KeyEvent(Char("["), {}), "left_bracket_mode">>,
     <<KeyEvent(Char("]"), {}), "right_bracket_mode">>,
     <<KeyEvent(Char("/"), {}), "search">>,
     <<KeyEvent(Char("n"), {}), "search_next">>,
     <<KeyEvent(Char("N"), {}), "extend_search_next">>,
     <<KeyEvent(Char("*"), {}), "search_selection">>,
     <<KeyEvent(Char("u"), {}), "undo">>,
     <<KeyEvent(Char("U"), {}), "redo">>,
     <<KeyEvent(Char("y"), {}), "yank">>,
     <<KeyEvent(Char("p"), {}), "paste_after">>,
     <<KeyEvent(Char("P"), {}), "paste_before">>,
     <<KeyEvent(Char(">"), {}), "indent">>,
     <<KeyEvent(Char("<"), {}), "unindent">>,
     <<KeyEvent(Char("="), {}), "format_selections">>,
     <<KeyEvent(Char("J"), {}), "join_selections">>,
     <<KeyEvent(Char("K"), {}), "hover">>,
     <<KeyEvent(Char(" "), {}), "keep_primary_selection">>,
     <<KeyEvent(Named("Esc"), {}), "normal_mode">>,
     <<KeyEvent(Named("PageUp"), {}), "page_up">>,
     <<KeyEvent(Char("b"), {CONTROL}), "page_up">>,
     <<KeyEvent(Named("PageDown"), {}), "page_down">>,
     <<KeyEvent(Char("f"), {CONTROL}), "page_down">>,
     <<KeyEvent(Char("u"), {CONTROL}), "half_page_up">>,
     <<KeyEvent(Char("d"), {CONTROL}), "half_page_down">>,
     <<KeyEvent(Char("w"), {CONTROL}), "window_mode">>,
     <<KeyEvent(Char("c"), {CONTROL}), "toggle_comments">>,
     <<KeyEvent(Char("K"), {}), "keep_selections">>,
     <<KeyEvent(Named("Tab"), {}), "jump_forward">>,
     <<KeyEvent(Char("o"), {CONTROL}), "jump_backward">>,
     <<KeyEvent(Char(" "), {}), "space_mode">>,
     <<KeyEvent(Char("z"), {}), "view_mode">>,
     <<KeyEvent(Char("\""), {}), "select_register">>
    >>

\* the pairs of `let normal = hashmap!(...)`, as written
NormalBindings ==
    <<
     <<KeyEvent(Char("h"), {}), "move_char_left">>,
     <<KeyEvent(Char("j"), {}), "move_line_down">>,
     <<KeyEvent(Char("k"), {}), "move_line_up">>,
     <<KeyEvent(Char("l"), {}), "move_char_right">>,
     <<KeyEvent(Named("Left"), {}), "move_char_left">>,
     <<KeyEvent(Named("Down"), {}), "move_line_down">>,
     <<KeyEvent(Named("Up"), {}), "move_line_up">>,
     <<KeyEvent(Named("Right"), {}), "move_char_right">>,
     <<KeyEvent(Char("t"), {}), "find_till_char">>,
     <<KeyEvent(Char("f"), {}), "find_next_char">>,
     <<KeyEvent(Char("T"), {}), "till_prev_char">>,
     <<KeyEvent(Char("F"), {}), "find_prev_char">>,
     <<KeyEvent(Char("r"), {}), "replace">>,
     <<KeyEvent(Char("R"), {}), "replace_with_yanked">>,
     <<KeyEvent(Named("Home"), {}), "move_line_start">>,
     <<KeyEvent(Named("End"), {}), "move_line_end">>,
     <<KeyEvent(Char("w"), {}), "move_next_word_start">>,
     <<KeyEvent(Char("b"), {}), "move_prev_word_start">>,
     <<KeyEvent(Char("e"), {}), "move_next_word_end">>,
     <<KeyEvent(Char("v"), {}), "select_mode">>,
     <<KeyEvent(Char("g"), {}), "goto_mode">>,
     <<KeyEvent(Char(":"), {}), "command_mode">>,
     <<KeyEvent(Char("i"), {}), "insert_mode">>,
     <<KeyEvent(Char("I"), {}), "prepend_to_line">>,
     <<KeyEvent(Char("a"), {}), "append_mode">>,
     <<KeyEvent(Char("A"), {}), "append_to_line">>,
     <<KeyEvent(Char("o"), {}), "open_below">>,
     <<KeyEvent(Char("O"), {}), "open_above">>,
     <<KeyEvent(Char("d"), {}), "delete_selection">>,
     <<KeyEvent(Char("c"), {}), "change_selection">>,
     <<KeyEvent(Char("s"), {}), "select_regex">>,
     <<KeyEvent(Char("s"), {ALT}), "split_selection_on_newline">>,
     <<KeyEvent(Char("S"), {}), "split_selection">>,
     <<KeyEvent(Char(";"), {}), "collapse_selection">>,
     <<KeyEvent(Char(";"), {ALT}), "flip_selections">>,
     <<KeyEvent(Char("%"), {}), "select_all">>,
     <<KeyEvent(Char("x"), {}), "select_line">>,
     <<KeyEvent(Char("X"), {}), "extend_line">>,
     <<KeyEvent(Char("m"), {}), "match_brackets">>,
     <<KeyEvent(Char("["), {}), "left_bracket_mode">>,
     <<KeyEvent(Char("]"), {}), "right_bracket_mode">>,
     <<KeyEvent(Char("/"), {}), "search">>,
     <<KeyEvent(Char("n"), {}), "search_next">>,
     <<KeyEvent(Char("N"), {}), "extend_search_next">>,
     <<KeyEvent(Char("*"), {}), "search_selection">>,
     <<KeyEvent(Char("u"), {}), "undo">>,
     <<KeyEvent(Char("U"), {}), "redo">>,
     <<KeyEvent(Char("y"), {}), "yank">>,
     <<KeyEvent(Char("p"), {}), "paste_after">>,
     <<KeyEvent(Char("P"), {}), "paste_before">>,
     <<KeyEvent(Char(">"), {}), "indent">>,
     <<KeyEvent(Char("<"), {}), "unindent">>,
     <<KeyEvent(Char("="), {}), "format_selections">>,
     <<KeyEvent(Char("J"), {}), "join_selections">>,
     <<KeyEvent(Char("K"), {}), "keep_selections">>,
     <<KeyEvent(Char(" "), {}), "keep_primary_selection">>,
     <<KeyEvent(Named("Esc"), {}), "normal_mode">>,
     <<KeyEvent(Named("PageUp"), {}), "page_up">>,
     <<KeyEvent(Char("b"), {CONTROL}), "page_up">>,
     <<KeyEvent(Named("PageDown"), {}), "page_down">>,
     <<KeyEvent(Char("f"), {CONTROL}), "page_down">>,
     <<KeyEvent(Char("u"), {CONTROL}), "half_page_up">>,
     <<KeyEvent(Char("d"), {CONTROL}), "half_page_down">>,
     <<KeyEvent(Char("w"), {CONTROL}), "window_mode">>,
     <<KeyEvent(Char("c"), {CONTROL}), "toggle_comments">>,
     <<KeyEvent(Char("K"), {}), "hover">>,
     <<KeyEvent(Named("Tab"), {}), "jump_forward">>,
     <<KeyEvent(Char("o"), {CONTROL}), "jump_backward">>,
     <<KeyEvent(Char(" "), {}), "space_mode">>,
     <<KeyEvent(Char("z"), {}), "view_mode">>,
     <<KeyEvent(Char("\""), {}), "select_register">>
    >>

SelectBindings ==
    <<
     <<KeyEvent(Char("h"), {}), "extend_char_left">>,
     <<KeyEvent(Char("j"), {}), "extend_line_down">>,
     <<KeyEvent(Char("k"), {}), "extend_line_up">>,
     <<KeyEvent(Char("l"), {}), "extend_char_right">>,
     <<KeyEvent(Named("Left"), {}), "extend_char_left">>,
     <<KeyEvent(Named("Down"), {}), "extend_line_down">>,
     <<KeyEvent(Named("Up"), {}), "extend_line_up">>,
     <<KeyEvent(Named("Right"), {}), "extend_char_right">>,
     <<KeyEvent(Char("w"), {}), "extend_next_word_start">>,
     <<KeyEvent(Char("b"), {}), "extend_prev_word_start">>,
     <<KeyEvent(Char("e"), {}), "extend_next_word_end">>,
     <<KeyEvent(Char("t"), {}), "extend_till_char">>,
     <<KeyEvent(Char("f"), {}), "extend_next_char">>,
     <<KeyEvent(Char("T"), {}), "extend_till_prev_char">>,
     <<KeyEvent(Char("F"), {}), "extend_prev_char">>,
     <<KeyEvent(Named("Home"), {}), "extend_line_start">>,
     <<KeyEvent(Named("End"), {}), "extend_line_end">>,
     <<KeyEvent(Named("Esc"), {}), "exit_select_mode">>
    >>

InsertBindings ==
    <<
     <<KeyEvent(Named("Esc"), {}), "normal_mode">>,
     <<KeyEvent(Named("Backspace"), {}), "insert::delete_char_backward">>,
     <<KeyEvent(Named("Delete"), {}), "insert::delete_char_forward">>,
     <<KeyEvent(Named("Enter"), {}), "insert::insert_newline">>,
     <<KeyEvent(Named("Tab"), {}), "insert::insert_tab">>,
     <<KeyEvent(Char("x"), {CONTROL}), "completion">>,
     <<KeyEvent(Char("w"), {CONTROL}), "insert::delete_word_backward">>
    >>

\* one `_map.insert(key, value)` of the expansion of helix_core's hashmap!
hashmap_insert(m, pair) == Insert(m, pair[1], pair[2])

\* Extend keeping the value a key already has
ExtendKeepingOld(m, other) ==
    [x \in DOMAIN m \cup DOMAIN other |-> IF x \in DOMAIN m THEN m[x] ELSE other[x]]

\* HashMap::extend with the entries of another map: each replaces or adds
Extend(m, other) ==
    [x \in DOMAIN m \cup DOMAIN other |-> IF x \in DOMAIN other THEN other[x] ELSE m[x]]

\* HashMap::clone: a map of its own with the same entries
Clone(m) == m

At(label, i) == [at |-> label, i |-> i]

\* the next entry of the literal of `let normal = hashmap!(...)`
NormalEntry ==
    /\ pc.at = "normal" /\ pc.i < Len(NormalBindings)
    /\ literal' = hashmap_insert(literal, NormalBindings[pc.i + 1])
    /\ pc' = At("normal", pc.i + 1)
    /\ UNCHANGED <<normal, select, keymaps, built>>

\* `let normal = ...`, the literal complete
LetNormal ==
    /\ pc.at = "normal" /\ pc.i = Len(NormalBindings)
    /\ normal' = literal
    /\ literal' = EmptyMap
    /\ pc' = At("clone", 0)
    /\ UNCHANGED <<select, keymaps, built>>

\* `let mut select = normal.clone();`
LetSelect ==
    /\ pc.at = "clone"
    /\ select' = Clone(normal)
    /\ pc' = At("select", 0)
    /\ UNCHANGED <<literal, normal, keymaps, built>>

\* the next entry of the literal handed to select.extend
SelectEntry ==
    /\ pc.at = "select" /\ pc.i < Len(SelectBindings)
    /\ literal' = hashmap_insert(literal, SelectBindings[pc.i + 1])
    /\ pc' = At("select", pc.i + 1)
    /\ UNCHANGED <<normal, select, keymaps, built>>

\* `select.extend(... .into_iter())`, the literal complete
ExtendSelect ==
    /\ pc.at = "select" /\ pc.i = Len(SelectBindings)
    /\ select' = Extend(select, literal)
    /\ literal' = EmptyMap
    /\ pc' = At("outer", 0)
    /\ UNCHANGED <<normal, keymaps, built>>

\* `Mode::Normal => normal` and `Mode::Select => select` of the outer literal
OuterEntry ==
    /\ pc.at = "outer"
    /\ keymaps' = IF pc.i = 0 THEN Insert(keymaps, "Normal", normal)
                  ELSE Insert(keymaps, "Select", select)
    /\ pc' = IF pc.i = 0 THEN At("outer", 1) ELSE At("insert", 0)
    /\ UNCHANGED <<literal, normal, select, built>>

\* the next entry of the literal of Mode::Insert
InsertEntry ==
    /\ pc.at = "insert" /\ pc.i < Len(InsertBindings)
    /\ literal' = hashmap_insert(literal, InsertBindings[pc.i + 1])
    /\ pc' = At("insert", pc.i + 1)
    /\ UNCHANGED <<normal, select, keymaps, built>>

\* `Mode::Insert => hashmap!(...)`, the literal complete, and the return
Return ==
    /\ pc.at = "insert" /\ pc.i = Len(InsertBindings)
    /\ keymaps' = Insert(keymaps, "Insert", literal)
    /\ literal' = EmptyMap
    /\ pc' = At("done", 0)
    /\ UNCHANGED <<normal, select, built>>

\* default() is called a second time, the keymaps of the first call kept
\* by the caller; the locals of the new call are fresh
CallAgain ==
    /\ pc.at = "done"
    /\ built = EmptyMap
    /\ built' = keymaps
    /\ keymaps' = EmptyMap
    /\ literal' = EmptyMap
    /\ normal' = EmptyMap
    /\ select' = EmptyMap
    /\ pc' = At("normal", 0)

NextKeymaps ==
    \/ NormalEntry /\ UNCHANGED <<codecVars, remapVars>>
    \/ LetNormal /\ UNCHANGED <<codecVars, remapVars>>
    \/ LetSelect /\ UNCHANGED <<codecVars, remapVars>>
    \/ SelectEntry /\ UNCHANGED <<codecVars, remapVars>>
    \/ ExtendSelect /\ UNCHANGED <<codecVars, remapVars>>
    \/ OuterEntry /\ UNCHANGED <<codecVars, remapVars>>
    \/ InsertEntry /\ UNCHANGED <<codecVars, remapVars>>
    \/ Return /\ UNCHANGED <<codecVars, remapVars>>
    \/ CallAgain /\ UNCHANGED <<codecVars, remapVars>>

(***************************************************************************)
(* The specifications: one per part of the module.  In each, the other     *)
(* parts are at rest.                                                      *)
(***************************************************************************)
\* a run of the codec starts from a key event to write or a string to parse
InitCodec ==
    /\ parsed = NoResult
    /\ \/ at = "key" /\ key \in KeyEvents /\ text = <<>>
       \/ /\ at = "text" /\ key = NoKey
          /\ \E mods \in SeqsUpTo(ModTokens, MaxMods), code \in CodeTokens :
                 text = InputString(mods, code)
    /\ doc = <<>> /\ loaded = NoLoad /\ previous = NoLoad
    /\ pc = At("normal", 0) /\ literal = EmptyMap
    /\ normal = EmptyMap /\ select = EmptyMap /\ keymaps = EmptyMap
    /\ built = EmptyMap

\* a run of the loader starts from the text of a remap document
InitRemaps ==
    /\ doc \in Documents /\ loaded = NoLoad /\ previous = NoLoad
    /\ at = "text" /\ key = NoKey /\ text = <<>> /\ parsed = NoResult
    /\ pc = At("normal", 0) /\ literal = EmptyMap
    /\ normal = EmptyMap /\ select = EmptyMap /\ keymaps = EmptyMap
    /\ built = EmptyMap

\* a run of default() starts with nothing built
InitKeymaps ==
    /\ pc = At("normal", 0) /\ literal = EmptyMap
    /\ normal = EmptyMap /\ select = EmptyMap /\ keymaps = EmptyMap
    /\ built = EmptyMap
    /\ at = "text" /\ key = NoKey /\ text = <<>> /\ parsed = NoResult
    /\ doc = <<>> /\ loaded = NoLoad /\ previous = NoLoad

SpecCodec == InitCodec /\ [][NextCodec]_vars

SpecRemaps == InitRemaps /\ [][NextRemaps]_vars

SpecKeymaps == InitKeymaps /\ [][NextKeymaps]_vars

(***************************************************************************)
(* Properties of the codec, checked under SpecCodec.                       *)
(***************************************************************************)
\* the string parsed came from a configuration file, not from Display
Supplied == at = "parsed" /\ key = NoKey

\* the string parsed was written by Display from key
Written == at = "parsed" /\ key # NoKey

\* the code token of a string: the segment after its last '-'
CodeTokenOf(s) == LET segs == Split(s, <<>>) IN segs[Len(segs)]

\* the segments of a string before its code token
ModifierTokensOf(s) == LET segs == Split(s, <<>>) IN SubSeq(segs, 1, Len(segs) - 1)

IsModifierToken(t) == t \in {<<"S">>, <<"A">>, <<"C">>}

\* the positions of the segments m that hold a modifier token seen before
RepeatsIn(m) == {i \in 1..Len(m) :
                    IsModifierToken(m[i]) /\ \E j \in 1..(i - 1) : m[j] = m[i]}

\* the positions of the segments m that hold no modifier token
StrangersIn(m) == {i \in 1..Len(m) : ~IsModifierToken(m[i])}

\* C1: formatting a key event whose code is neither Up nor Down (a control
\* key, F(n) with 1 <= n <= 12, or any character) and parsing the string
\* written returns that key event.
C1_RoundTrip ==
    (/\ Written
     /\ key.code.tag \notin {"Up", "Down"}
     /\ (key.code.tag = "F" => key.code.n \in 1..12))
        => parsed = Ok(key)

\* C2: parsing never panics: it ends by returning a key event or an error.
C2_ParseReturns ==
    at = "parsed" => parsed.kind \in {"Ok", "Err"}

\* the code token is F and one or two decimal digits
IsFunctionToken(t) ==
    /\ Len(t) \in {2, 3}
    /\ t[1] = "F"
    /\ \A i \in 2..Len(t) : t[i] \in {"0", "1", "2", "3", "4", "5", "6", "7", "8", "9"}

\* its number
FunctionTokenValue(t) ==
    LET d(i) == CHOOSE v \in 0..9 : Digits[v + 1] = t[i]
    IN  IF Len(t) = 2 THEN d(2) ELSE 10 * d(2) + d(3)

\* C3: parsing returns Function(n) exactly when the code token is F and one
\* or two digits of value n in 1..12 (the modifiers being acceptable); every
\* other token of two or more characters that starts with F is rejected, F0
\* and F13 with the invalid-function-key error; so no parsed key event holds
\* Function(n) with n outside 1..12.
C3_FunctionKeys ==
    Supplied =>
        LET t == CodeTokenOf(text)
            m == ModifierTokensOf(text)
            fn == IsFunctionToken(t) /\ FunctionTokenValue(t) \in 1..12
        IN  /\ (parsed.kind = "Ok" /\ parsed.key.code.tag = "F")
                   => (fn /\ parsed.key.code.n = FunctionTokenValue(t))
            /\ (fn /\ RepeatsIn(m) = {} /\ StrangersIn(m) = {})
                   => (parsed.kind = "Ok" /\ parsed.key.code = F(FunctionTokenValue(t)))
            /\ (Len(t) >= 2 /\ t[1] = "F" /\ ~fn) => parsed.kind # "Ok"
            /\ (t \in {<<"F", "0">>, <<"F", "1", "3">>})
                   => parsed = Err("InvalidFunctionKey")

\* C4 (as claimed): a modifier token occurring twice before the code token
\* makes parsing fail with the repeated-modifier error, a segment before the
\* code token other than S, A, C makes it fail with the invalid-modifier
\* error (with both in one string, with one of the two), and no such string
\* yields a key event.
C4_ModifierErrors ==
    Supplied =>
        LET m == ModifierTokensOf(text)
            repeats == RepeatsIn(m)
            strangers == StrangersIn(m)
        IN  (repeats # {} \/ strangers # {}) =>
                /\ parsed.kind = "Err"
                /\ strangers = {} => parsed.err = "RepeatedKeyModifier"
                /\ repeats = {} => parsed.err = "InvalidKeyModifier"
                /\ parsed.err \in {"RepeatedKeyModifier", "InvalidKeyModifier"}

\* the error of the leftmost of the offending positions: repeats and strangers
FirstModifierError(repeats, strangers) ==
    LET i == CHOOSE p \in repeats \cup strangers :
                 \A o \in repeats \cup strangers : p <= o
    IN  IF i \in repeats THEN "RepeatedKeyModifier" ELSE "InvalidKeyModifier"

\* C4 (amended): a string with a repeated modifier token or a segment before
\* the code token other than S, A, C never yields a key event.  The code
\* token is read first: when the code token alone does not parse, parsing
\* ends as it does on the code token alone; when it does, parsing fails with
\* the error of the leftmost offending segment, repeated-modifier for a
\* second occurrence of S, A or C and invalid-modifier for a segment other
\* than S, A, C.
C4_FirstOffenceReported ==
    Supplied =>
        LET m == ModifierTokensOf(text)
            repeats == RepeatsIn(m)
            strangers == StrangersIn(m)
            alone == from_str(CodeTokenOf(text))
        IN  (repeats # {} \/ strangers # {}) =>
                /\ parsed.kind # "Ok"
                /\ alone.kind = "Ok" => parsed = Err(FirstModifierError(repeats, strangers))
                /\ alone.kind # "Ok" => parsed = alone

\* C4 witness: C-A-S-C-1 has been parsed, and failed on the second C
C4_Witness ==
    /\ Supplied
    /\ text = <<"C", "-", "A", "-", "S", "-", "C", "-", "1">>
    /\ parsed = Err("RepeatedKeyModifier")

\* C5: when the segment after the last '-' is empty (the empty string, "S-")
\* parsing fails with the missing-code error.
C5_MissingCode ==
    (Supplied /\ CodeTokenOf(text) = <<>>) => parsed = Err("MissingKeyCode")

HeaderLines == {i \in 1..Len(doc) : doc[i].header}

EntryLines == {i \in 1..Len(doc) : ~doc[i].header}

\* the header line of the section that line i is in, 0 before any header
SectionLine(i) ==
    IF \E h \in HeaderLines : h < i
    THEN CHOOSE h \in HeaderLines : h < i /\ \A o \in HeaderLines : o < i => o <= h
    ELSE 0

\* the entry lines of the section opened at header line h
EntriesOf(h) == {i \in EntryLines : SectionLine(i) = h}

\* the document is a TOML table of tables of strings: every entry is in a
\* section, no section is opened twice, no key is given twice in a section
WellFormed ==
    /\ \A i \in EntryLines : SectionLine(i) # 0
    /\ \A g, h \in HeaderLines : doc[g].name = doc[h].name => g = h
    /\ \A i, j \in EntryLines :
           (SectionLine(i) = SectionLine(j) /\ doc[i].source = doc[j].source) => i = j

ModeNames == {"Normal", "Select", "Insert"}

SourceOf(i) == from_str(doc[i].source)

TargetOf(i) == from_str(doc[i].target)

\* every section name is a mode name and every string parses
AllValid ==
    /\ \A h \in HeaderLines : doc[h].name \in ModeNames
    /\ \A i \in EntryLines : SourceOf(i).kind = "Ok" /\ TargetOf(i).kind = "Ok"

\* C6 (as claimed): a document whose section names are mode names and whose
\* strings all parse loads into one table per section, which maps
\* parse(source) to parse(target) for every entry of the section and holds
\* nothing else.
C6_EveryPairMapped ==
    (loaded # NoLoad /\ WellFormed /\ AllValid) =>
        /\ loaded.kind = "Ok"
        /\ DOMAIN loaded.remaps = {doc[h].name : h \in HeaderLines}
        /\ \A h \in HeaderLines :
               LET remap == loaded.remaps[doc[h].name]
               IN  /\ DOMAIN remap = {SourceOf(i).key : i \in EntriesOf(h)}
                   /\ \A i \in EntriesOf(h) : remap[SourceOf(i).key] = TargetOf(i).key

\* C6 (amended): such a document loads into one table per section, whose
\* keys are exactly the key events parse(source) of the entries of the
\* section, each mapped to parse(target) of an entry of the section with
\* that source key event: of its one entry when a single source string
\* denotes it, of one of them when several do.  Targets are taken as parsed,
\* bound or not.
C6_OnePairPerChord ==
    (loaded # NoLoad /\ WellFormed /\ AllValid) =>
        /\ loaded.kind = "Ok"
        /\ DOMAIN loaded.remaps = {doc[h].name : h \in HeaderLines}
        /\ \A h \in HeaderLines :
               LET remap == loaded.remaps[doc[h].name]
               IN  /\ DOMAIN remap = {SourceOf(i).key : i \in EntriesOf(h)}
                   /\ \A c \in DOMAIN remap :
                          \E i \in EntriesOf(h) :
                              SourceOf(i).key = c /\ remap[c] = TargetOf(i).key

\* C6 witness: [Insert] y = "x", S-C-a = "F12" has been loaded; F12 is bound
\* in no table of default()
C6_Witness ==
    /\ doc = <<Header("Insert"), Entry(<<"y">>, <<"x">>),
               Entry(<<"S", "-", "C", "-", "a">>, <<"F", "1", "2">>)>>
    /\ loaded.kind = "Ok"
    /\ loaded.remaps["Insert"][KeyEvent(Char("a"), {SHIFT, CONTROL})]
           = KeyEvent(F(12), {})

\* the errors of the offending section names and strings of the document
OffenceErrors ==
    {"UnknownMode" : h \in {g \in HeaderLines : doc[g].name \notin ModeNames}}
    \cup {SourceOf(i).err : i \in {j \in EntryLines : SourceOf(j).kind = "Err"}}
    \cup {TargetOf(i).err : i \in {j \in EntryLines : TargetOf(j).kind = "Err"}}

\* C7: a document with a section name that is no mode name, or a source or
\* target that does not parse, makes the load return an error and nothing
\* else: the unknown-mode error or the error of a string that does not parse.
C7_AllOrNothing ==
    (loaded # NoLoad /\ WellFormed /\ ~AllValid) =>
        /\ loaded.kind = "Err"
        /\ loaded.remaps = EmptyMap
        /\ loaded.err \in OffenceErrors

\* C10: when two entries of a section denote one source key event through
\* different strings, with different targets, the table maps the key event
\* to the target of the later entry, and a second load of the document
\* returns what the first returned.
C10_LaterEntryWins ==
    (loaded # NoLoad /\ WellFormed /\ AllValid /\ loaded.kind = "Ok") =>
        /\ \A i, j \in EntryLines :
               (/\ i < j
                /\ SectionLine(i) = SectionLine(j)
                /\ SourceOf(i).key = SourceOf(j).key
                /\ TargetOf(i).key # TargetOf(j).key
                /\ ~\E k \in EntriesOf(SectionLine(j)) :
                       k > j /\ SourceOf(k).key = SourceOf(j).key)
                   => loaded.remaps[doc[SectionLine(j)].name][SourceOf(j).key]
                          = TargetOf(j).key
        /\ previous # NoLoad => previous = loaded

(***************************************************************************)
(* Properties of default(), checked under SpecKeymaps.                     *)
(***************************************************************************)
\* the key events of the literal handed to select.extend
SelectOverrides == {SelectBindings[i][1] : i \in 1..Len(SelectBindings)}

\* the command of the last pair of NormalBindings for the key event k
NormalCommand(k) ==
    LET last == CHOOSE i \in 1..Len(NormalBindings) :
                    /\ NormalBindings[i][1] = k
                    /\ \A j \in 1..Len(NormalBindings) :
                           NormalBindings[j][1] = k => j <= i
    IN  NormalBindings[last][2]

\* C8: in the keymaps returned, the Select table holds the Normal command
\* for every key event of the Normal table that is not overridden, the
\* override for every overridden key event, and nothing else; the Normal
\* table still holds its own commands for the overridden key events (h,
\* Home, Esc and the others).
C8_SelectFromNormal ==
    pc.at = "done" =>
        LET N == keymaps["Normal"]
            S == keymaps["Select"]
        IN  /\ DOMAIN S = DOMAIN N \cup SelectOverrides
            /\ \A k \in DOMAIN N \ SelectOverrides : S[k] = N[k]
            /\ \A i \in 1..Len(SelectBindings) :
                   S[SelectBindings[i][1]] = SelectBindings[i][2]
            /\ \A k \in SelectOverrides \cap DOMAIN N : N[k] = NormalCommand(k)
            /\ N[KeyEvent(Char("h"), {})] = "move_char_left"
            /\ N[KeyEvent(Named("Home"), {})] = "move_line_start"
            /\ N[KeyEvent(Named("Esc"), {})] = "normal_mode"

\* C8 witness: default() has returned, with h extending in Select and moving
\* in Normal, and x selecting a line in both
C8_Witness ==
    /\ pc.at = "done"
    /\ keymaps["Select"][KeyEvent(Char("h"), {})] = "extend_char_left"
    /\ keymaps["Normal"][KeyEvent(Char("h"), {})] = "move_char_left"
    /\ keymaps["Select"][KeyEvent(Char("x"), {})] = "select_line"
    /\ keymaps["Normal"][KeyEvent(Char("x"), {})] = "select_line"

\* the key events named by the pairs of NormalBindings
NormalKeys == {NormalBindings[i][1] : i \in 1..Len(NormalBindings)}

\* C11: in the Normal table returned by default() every key event is bound
\* to the command of the last pair of the list that names it: K, listed
\* with keep_selections and later with hover, is bound to hover, and the
\* space key, listed with keep_primary_selection and later with space_mode,
\* to space_mode; a second call of default() returns tables equal to those
\* of the first, entry for entry.
C11_LastPairWins ==
    pc.at = "done" =>
        LET N == keymaps["Normal"]
            K == KeyEvent(Char("K"), {})
            space == KeyEvent(Char(" "), {})
        IN  /\ DOMAIN N = NormalKeys
            /\ \A k \in NormalKeys : N[k] = NormalCommand(k)
            /\ \E i, j \in 1..Len(NormalBindings) :
                   /\ i < j
                   /\ NormalBindings[i] = <<K, "keep_selections">>
                   /\ NormalBindings[j] = <<K, "hover">>
            /\ N[K] = "hover"
            /\ \E i, j \in 1..Len(NormalBindings) :
                   /\ i < j
                   /\ NormalBindings[i] = <<space, "keep_primary_selection">>
                   /\ NormalBindings[j] = <<space, "space_mode">>
            /\ N[space] = "space_mode"
            /\ built # EmptyMap => keymaps = built

\* C11 witness: default() has returned a second time, K bound to hover and
\* the space key to space_mode in the Normal tables of both calls
C11_Witness ==
    /\ pc.at = "done"
    /\ built # EmptyMap
    /\ keymaps["Normal"][KeyEvent(Char("K"), {})] = "hover"
    /\ built["Normal"][KeyEvent(Char("K"), {})] = "hover"
    /\ keymaps["Normal"][KeyEvent(Char(" "), {})] = "space_mode"

(***************************************************************************)
(* Modifier order, checked under SpecCodec.                                *)
(***************************************************************************)
\* the modifier a token stands for
TokenModifier(t) ==
    CASE t = <<"S">> -> SHIFT
      [] t = <<"A">> -> ALT
      [] t = <<"C">> -> CONTROL

\* the prefixes of the modifiers held, in the order S-, A-, C-
OrderedPrefixes(modifiers) ==
    LET prefix(flag, letter) == IF flag \in modifiers THEN <<letter, "-">> ELSE <<>>
    IN  prefix(SHIFT, "S") \o prefix(ALT, "A") \o prefix(CONTROL, "C")

====
